---------------------------- MODULE Spec2Model ----------------------------
(***************************************************************************)
(* Model of scripts/dev_server.py: the port search of main() through       *)
(* try_bind(), the exit paths of main(), and the response headers that     *)
(* Handler.end_headers() adds to every response.                           *)
(*                                                                         *)
(* The operating system and Python's socketserver / http.server base       *)
(* classes are the environment: a bind either succeeds or raises, and the  *)
(* base responder writes its own status line, headers and body around the  *)
(* call of end_headers().                                                  *)
(***************************************************************************)
EXTENDS Integers, Sequences, FiniteSets, TLC

VARIABLES
    platform,     \* "bsd" or "linux": decides the errno of EADDRINUSE
    startPort,    \* args.port
    isolated,     \* args.isolated
    coep,         \* args.coep
    pc,           \* position in main()
    idx,          \* position of the for loop of line 76 in its range
    binding,      \* socket under construction inside try_bind (0: none)
    attempts,     \* history: the port of every try_bind call, in order
    results,      \* history: what the OS answered to every finished attempt
    open,         \* sockets created by the run and not closed by the program
    httpd,        \* the server object main() holds (None: 0)
    chosen_port,  \* the port main() holds (None: -1)
    boundPort,    \* the port the OS really bound httpd's socket to (-1: none)
    output,       \* what the process printed, in order
    exitCode,     \* the exit status (-1 while the process runs)
    handler,      \* the Handler of the current request (<<>> when idle)
    hdrbuf,       \* the handler's buffered header lines (_headers_buffer)
    wire,         \* what was written to the current connection so far
    responses     \* the bytes written on every finished connection

vars == <<platform, startPort, isolated, coep, pc, idx, binding, attempts,
          results, open, httpd, chosen_port, boundPort, output, exitCode,
          handler, hdrbuf, wire, responses>>

searchVars == <<idx, binding, attempts, results, open, httpd, chosen_port,
                boundPort>>
serveVars == <<handler, hdrbuf, wire, responses>>
configVars == <<platform, startPort, isolated, coep>>

----------------------------------------------------------------------------
(* Bounds and inputs *)

\* Requests served in one run before the model stops accepting.
MaxResponses == 2

\* Requested ports: the low edge, the default-like case, and a port whose
\* 20 successors leave the 16-bit range.
StartPorts == {0, 8000, 65530}

\* Ports the OS may hand out for a bind to port 0, when they are free.
EphemeralSample == {8010, 32768, 60999}

None == 0
NoPort == -1
\* The largest port socket.bind() accepts (a 16-bit field).
MaxPort == 2^16 - 1

----------------------------------------------------------------------------
(* The errors a bind can raise *)

EADDRINUSE(plat) ==
    [oserror |-> TRUE,
     errno   |-> IF plat = "bsd" THEN 48 ELSE 98,
     msg     |-> <<"Errno", "Address already in use">>,
     name    |-> "EADDRINUSE"]

EACCES ==
    [oserror |-> TRUE, errno |-> 13,
     msg |-> <<"Errno", "Permission denied">>, name |-> "EACCES"]

EADDRNOTAVAIL(plat) ==
    [oserror |-> TRUE,
     errno   |-> IF plat = "bsd" THEN 49 ELSE 99,
     msg     |-> <<"Errno", "Cannot assign requested address">>,
     name    |-> "EADDRNOTAVAIL"]

\* socket.bind() rejects a port outside 0..65535 with OverflowError, which
\* is not an OSError.
OverflowError ==
    [oserror |-> FALSE, errno |-> 0,
     msg |-> <<"bind(): port must be 0-65535.">>, name |-> "OverflowError"]

\* 'Address already in use' in str(e)
Contains(msg, part) == \E i \in 1..Len(msg) : msg[i] = part

\* Ports this run has found occupied.
Occupied ==
    {attempts[i] : i \in {j \in 1..Len(results) : results[j] = "EADDRINUSE"}}

\* What the OS can answer to bind((host, port)): "OK" with the port it
\* bound, or an error.
BindErrors(port) ==
    IF port < 0 \/ port > MaxPort
    THEN {OverflowError}
    ELSE {EADDRINUSE(platform), EACCES, EADDRNOTAVAIL(platform)}

BoundPorts(port) ==
    IF port < 0 \/ port > MaxPort THEN {}
    ELSE IF port = 0 THEN EphemeralSample \ Occupied
    ELSE {port}

----------------------------------------------------------------------------
(* try_bind and the search of main() *)

\* except OSError as e: if e.errno == 48 or 'Address already in use' in str(e)
IsAddrInUseAll(e) == e.oserror
IsAddrInUse(e) ==
    e.oserror /\ (e.errno = 48 \/ Contains(e.msg, "Address already in use"))

\* range(a, b) as a sequence
Range(a, b) == [i \in 1..(IF b > a THEN b - a ELSE 0) |-> a + i - 1]

\* range(args.port + 1, args.port + 21)
SearchPortsFromRequested(port) == Range(port, port + 21)
SearchPorts(port) == Range(port + 1, port + 21)

\* The port the pending try_bind call is made with.
CallPort ==
    CASE pc = "first"    -> startPort
      [] pc = "loop"     -> SearchPorts(startPort)[idx]
      [] pc = "fallback" -> 0

\* TCPServer.__init__ closes its socket when bind or listen raises.
ServerCloseLeak(socks, s) == socks
ServerClose(socks, s) == socks \ {s}

\* try_bind is entered: the server object creates its socket.
TryBindCall ==
    /\ pc \in {"first", "loop", "fallback"}
    /\ binding = 0
    /\ attempts' = Append(attempts, CallPort)
    /\ binding' = Len(attempts) + 1
    /\ open' = open \cup {Len(attempts) + 1}
    /\ UNCHANGED <<configVars, pc, idx, results, httpd, chosen_port,
                   boundPort, output, exitCode, serveVars>>

\* return httpd, port
TryBindReturnsServer ==
    /\ pc \in {"first", "loop", "fallback"}
    /\ binding # 0
    /\ \E bp \in BoundPorts(attempts[binding]) :
         /\ boundPort' = bp
         /\ httpd' = binding
         /\ chosen_port' = attempts[binding]
    /\ results' = Append(results, "OK")
    /\ binding' = 0
    /\ pc' = "print"
    /\ UNCHANGED <<configVars, idx, attempts, open, output, exitCode,
                   serveVars>>

\* Where main() goes when try_bind returned (None, None).
AfterNone ==
    CASE pc = "first" ->
           IF Len(SearchPorts(startPort)) > 0
           THEN pc' = "loop" /\ idx' = 1
           ELSE pc' = "fallback" /\ idx' = idx
      [] pc = "loop" ->
           IF idx < Len(SearchPorts(startPort))
           THEN pc' = "loop" /\ idx' = idx + 1
           ELSE pc' = "fallback" /\ idx' = idx
      [] pc = "fallback" -> pc' = "failed" /\ idx' = idx

\* The bind raised: return None, None for address-in-use, raise otherwise.
TryBindExcept ==
    /\ pc \in {"first", "loop", "fallback"}
    /\ binding # 0
    /\ \E e \in BindErrors(attempts[binding]) :
         /\ results' = Append(results, e.name)
         /\ open' = ServerClose(open, binding)
         /\ binding' = 0
         /\ IF IsAddrInUse(e)
            THEN /\ AfterNone
                 /\ UNCHANGED <<output, exitCode>>
            ELSE /\ pc' = "exited"
                 /\ idx' = idx
                 /\ output' = Append(output, [msg |-> "traceback", port |-> NoPort])
                 /\ exitCode' = 1
    /\ UNCHANGED <<configVars, attempts, httpd, chosen_port, boundPort,
                   serveVars>>

\* print("Failed to bind any port. ..."); sys.exit(2)
ExitNoPort == 2
FailExitCodeOne ==
    /\ pc = "failed"
    /\ output' = Append(output, [msg |-> "failed", port |-> NoPort])
    /\ exitCode' = 1
    /\ pc' = "exited"
    /\ UNCHANGED <<configVars, searchVars, serveVars>>
FailExit ==
    /\ pc = "failed"
    /\ output' = Append(output, [msg |-> "failed", port |-> NoPort])
    /\ exitCode' = ExitNoPort
    /\ pc' = "exited"
    /\ UNCHANGED <<configVars, searchVars, serveVars>>

\* print(f"Serving ... on http://{args.host}:{chosen_port} ...")
PrintServing ==
    /\ pc = "print"
    /\ output' = Append(output, [msg |-> "serving", port |-> chosen_port])
    /\ pc' = "serving"
    /\ UNCHANGED <<configVars, searchVars, exitCode, serveVars>>

----------------------------------------------------------------------------
(* Handler: the headers of every response *)

Status(code) == [t |-> "status", name |-> code, value |-> ""]
Header(n, v) == [t |-> "header", name |-> n, value |-> v]
EndOfHeaders == [t |-> "end", name |-> "", value |-> ""]
Body == [t |-> "body", name |-> "", value |-> ""]

\* send_header(name, value): one more line in the buffer
SendHeader(buf, n, v) == Append(buf, Header(n, v))

CSP ==
    "default-src 'self'; connect-src 'self' https://*.supabase.co; img-src 'self' data:; script-src 'self' 'unsafe-eval'; style-src 'self' 'unsafe-inline'; worker-src 'self' blob:; frame-ancestors 'none'"

\* The send_header calls of Handler.end_headers, in the order of the code.
AddPolicyHeadersAlwaysIsolated(buf, iso, pol) ==
    LET b1 == SendHeader(buf, "X-Content-Type-Options", "nosniff")
        b2 == SendHeader(b1, "Cross-Origin-Opener-Policy", "same-origin")
        b3 == SendHeader(b2, "Cross-Origin-Embedder-Policy", pol)
        b4 == SendHeader(b3, "Cross-Origin-Resource-Policy", "same-origin")
    IN  SendHeader(b4, "Content-Security-Policy", CSP)
AddPolicyHeaders(buf, iso, pol) ==
    LET b1 == SendHeader(buf, "X-Content-Type-Options", "nosniff")
        b2 == IF iso
              THEN LET c1 == SendHeader(b1, "Cross-Origin-Opener-Policy", "same-origin")
                       c2 == SendHeader(c1, "Cross-Origin-Embedder-Policy", pol)
                   IN  SendHeader(c2, "Cross-Origin-Resource-Policy", "same-origin")
              ELSE b1
    IN  SendHeader(b2, "Content-Security-Policy", CSP)

\* super().end_headers(): the blank line ends the block and the buffer is
\* flushed to the connection.
SuperEndHeaders(st) ==
    [buf |-> <<>>, out |-> st.out \o st.buf \o <<EndOfHeaders>>]

\* Handler.end_headers on a handler whose buffer and connection are st.
HandlerEndHeadersSuperFirst(st, iso, pol) ==
    LET s1 == SuperEndHeaders(st)
    IN  [s1 EXCEPT !.buf = AddPolicyHeaders(@, iso, pol)]
HandlerEndHeaders(st, iso, pol) ==
    SuperEndHeaders([st EXCEPT !.buf = AddPolicyHeaders(@, iso, pol)])

\* What the base responder puts in front of end_headers().
BaseHead(kind) ==
    IF kind = "ok"
    THEN <<Status("200"), Header("Content-type", "text/html"),
           Header("Content-Length", "n")>>
    ELSE <<Status("404"), Header("Connection", "close"),
           Header("Content-Type", "text/html;charset=utf-8")>>

\* serve_forever accepts a connection; handler_factory builds its Handler
\* from the run's arguments.
Accept ==
    /\ pc = "serving"
    /\ handler = <<>>
    /\ Len(responses) < MaxResponses
    /\ handler' = <<[isolated |-> isolated, coep_policy |-> coep,
                     stage |-> "new"]>>
    /\ hdrbuf' = <<>>
    /\ wire' = <<>>
    /\ UNCHANGED <<configVars, pc, searchVars, output, exitCode, responses>>

\* The base responder buffers the status line and its own headers.
SendHead ==
    /\ pc = "serving"
    /\ handler # <<>>
    /\ handler[1].stage = "new"
    /\ \E kind \in {"ok", "error"} : hdrbuf' = hdrbuf \o BaseHead(kind)
    /\ handler' = <<[handler[1] EXCEPT !.stage = "head"]>>
    /\ UNCHANGED <<configVars, pc, searchVars, output, exitCode, wire,
                   responses>>

\* The responder calls end_headers().
EndHeaders ==
    /\ pc = "serving"
    /\ handler # <<>>
    /\ handler[1].stage = "head"
    /\ LET st == HandlerEndHeaders([buf |-> hdrbuf, out |-> wire],
                                   handler[1].isolated, handler[1].coep_policy)
       IN  hdrbuf' = st.buf /\ wire' = st.out
    /\ handler' = <<[handler[1] EXCEPT !.stage = "flushed"]>>
    /\ UNCHANGED <<configVars, pc, searchVars, output, exitCode, responses>>

\* The responder writes the body.
SendBody ==
    /\ pc = "serving"
    /\ handler # <<>>
    /\ handler[1].stage = "flushed"
    /\ wire' = Append(wire, Body)
    /\ handler' = <<[handler[1] EXCEPT !.stage = "body"]>>
    /\ UNCHANGED <<configVars, pc, searchVars, output, exitCode, hdrbuf,
                   responses>>

\* The connection is closed and the handler dropped.
Finish ==
    /\ pc = "serving"
    /\ handler # <<>>
    /\ handler[1].stage = "body"
    /\ responses' = Append(responses, wire)
    /\ handler' = <<>>
    /\ hdrbuf' = <<>>
    /\ wire' = <<>>
    /\ UNCHANGED <<configVars, pc, searchVars, output, exitCode>>

\* except KeyboardInterrupt: print("\nShutting down..."); main returns.
Interrupt ==
    /\ pc = "serving"
    /\ output' = Append(output, [msg |-> "shutdown", port |-> NoPort])
    /\ exitCode' = 0
    /\ pc' = "exited"
    /\ UNCHANGED <<configVars, searchVars, serveVars>>

----------------------------------------------------------------------------
Init ==
    /\ platform \in {"bsd", "linux"}
    /\ startPort \in StartPorts
    /\ isolated \in BOOLEAN
    /\ coep \in {"require-corp", "credentialless"}
    /\ pc = "first"
    /\ idx = 0
    /\ binding = 0
    /\ attempts = <<>>
    /\ results = <<>>
    /\ open = {}
    /\ httpd = None
    /\ chosen_port = NoPort
    /\ boundPort = NoPort
    /\ output = <<>>
    /\ exitCode = -1
    /\ handler = <<>>
    /\ hdrbuf = <<>>
    /\ wire = <<>>
    /\ responses = <<>>

Next ==
    \/ TryBindCall
    \/ TryBindReturnsServer
    \/ TryBindExcept
    \/ FailExit
    \/ PrintServing
    \/ Accept
    \/ SendHead
    \/ EndHeaders
    \/ SendBody
    \/ Finish
    \/ Interrupt

----------------------------------------------------------------------------
(* Helpers of the properties *)

\* The documented order of candidates: P, P+1, ..., P+20, then 0.
ExpectedOrder == [i \in 1..22 |-> IF i = 22 THEN 0 ELSE startPort + i - 1]

\* Address-in-use as the documentation classifies an error: errno 48 or the
\* message.
ErrorNamed(n) ==
    CHOOSE e \in {EADDRINUSE(platform), EACCES, EADDRNOTAVAIL(platform),
                  OverflowError} : e.name = n
DocumentedInUse(n) ==
    LET e == ErrorNamed(n)
    IN  e.errno = 48 \/ Contains(e.msg, "Address already in use")

\* Every attempt of the search failed with address-in-use.
Exhausted ==
    /\ Len(results) = 22
    /\ \A i \in 1..22 : results[i] = "EADDRINUSE"

Printed(m) == \E i \in 1..Len(output) : output[i].msg = m

\* Responses whose header block has been written: the finished ones and the
\* current one once flushed.
Flushed ==
    {responses[i] : i \in 1..Len(responses)}
      \cup (IF handler # <<>> /\ handler[1].stage \in {"flushed", "body"}
            THEN {wire} ELSE {})

BaseNames == {"Content-type", "Content-Length", "Connection", "Content-Type"}
IsPolicyHeader(x) == x.t = "header" /\ x.name \notin BaseNames

\* The headers of a response that the base responder did not send.
PolicyPart(w) == SelectSeq(w, IsPolicyHeader)

ExpectedCSP ==
    "default-src 'self'; connect-src 'self' https://*.supabase.co; img-src 'self' data:; script-src 'self' 'unsafe-eval'; style-src 'self' 'unsafe-inline'; worker-src 'self' blob:; frame-ancestors 'none'"

ExpectedPolicy(iso, pol) ==
    IF iso
    THEN << [t |-> "header", name |-> "X-Content-Type-Options", value |-> "nosniff"],
            [t |-> "header", name |-> "Cross-Origin-Opener-Policy", value |-> "same-origin"],
            [t |-> "header", name |-> "Cross-Origin-Embedder-Policy", value |-> pol],
            [t |-> "header", name |-> "Cross-Origin-Resource-Policy", value |-> "same-origin"],
            [t |-> "header", name |-> "Content-Security-Policy", value |-> ExpectedCSP] >>
    ELSE << [t |-> "header", name |-> "X-Content-Type-Options", value |-> "nosniff"],
            [t |-> "header", name |-> "Content-Security-Policy", value |-> ExpectedCSP] >>

----------------------------------------------------------------------------
(* Properties *)

\* C1: the bind attempts of one search are a prefix of P, P+1, ..., P+20, 0
\* in that order; every attempt before the last failed with address-in-use;
\* the search stops at the first success and the chosen port is that
\* attempt's candidate.
C1_AscendingFirstSuccess ==
    /\ Len(attempts) <= 22
    /\ \A i \in 1..Len(attempts) : attempts[i] = ExpectedOrder[i]
    /\ \A i \in 1..Len(attempts) :
         i < Len(attempts) => i <= Len(results) /\ results[i] = "EADDRINUSE"
    /\ (\E i \in 1..Len(results) : results[i] = "OK") => httpd # None
    /\ httpd # None =>
         /\ httpd = Len(attempts)
         /\ results[httpd] = "OK"
         /\ chosen_port = attempts[httpd]

\* C1 witness: P and P+1 occupied, P+2 free: P, P+1, P+2 tried, P+2 chosen.
C1_Witness ==
    /\ startPort = 8000
    /\ attempts = <<8000, 8001, 8002>>
    /\ results = <<"EADDRINUSE", "EADDRINUSE", "OK">>
    /\ chosen_port = 8002
    /\ pc = "serving"

\* C2: when P..P+20 all fail with address-in-use and the bind to port 0
\* succeeds, the port reported in the serving line is the OS-assigned port:
\* at least 1 and outside [P, P+20].
C2_ReportsAssignedPort ==
    ( /\ Len(results) = 22
      /\ \A i \in 1..21 : results[i] = "EADDRINUSE"
      /\ results[22] = "OK"
      /\ pc \in {"serving", "exited"} )
    => /\ chosen_port = boundPort
       /\ chosen_port >= 1
       /\ chosen_port \notin startPort..(startPort + 20)
       /\ \E i \in 1..Len(output) :
            output[i].msg = "serving" /\ output[i].port = boundPort

\* C3: no port value appears twice among the bind attempts of one search.
C3_NoPortTwice ==
    \A i, j \in 1..Len(attempts) : i # j => attempts[i] # attempts[j]

\* C4: an attempt that fails with an error that is not address-in-use (errno
\* not 48 and no 'Address already in use' in the message) is the last
\* attempt: the error is surfaced, nothing is bound and the accept loop is
\* never entered.
C4_FatalAborts ==
    \A i \in 1..Len(results) :
      (results[i] # "OK" /\ ~DocumentedInUse(results[i])) =>
        /\ i = Len(attempts)
        /\ pc = "exited"
        /\ output = <<[msg |-> "traceback", port |-> NoPort]>>
        /\ httpd = None
        /\ open = {}
        /\ handler = <<>> /\ responses = <<>>

\* C4 witness: the second candidate fails with permission denied.
C4_Witness ==
    /\ results = <<"EADDRINUSE", "EACCES">>
    /\ pc = "exited"

\* C5 as stated: exit code 2 exactly when every attempt failed with
\* address-in-use, then with one diagnostic and no accept loop, and every
\* other terminating run exits with code 0.
C5_ExitTwoElseZero ==
    pc = "exited" =>
      /\ exitCode = 2 <=> Exhausted
      /\ exitCode = 2 =>
           /\ output = <<[msg |-> "failed", port |-> NoPort]>>
           /\ ~Printed("serving") /\ responses = <<>>
      /\ exitCode # 2 => exitCode = 0

\* C5 amended: exit code 2 exactly when every attempt failed with
\* address-in-use, then with one diagnostic and no accept loop; a run shut
\* down by interrupt in the accept loop exits with 0; a run aborted by
\* another bind error exits with 1 without entering the accept loop.
C5_ExitCodes ==
    pc = "exited" =>
      /\ exitCode \in {0, 1, 2}
      /\ exitCode = 2 <=> Exhausted
      /\ exitCode = 2 =>
           /\ output = <<[msg |-> "failed", port |-> NoPort]>>
           /\ ~Printed("serving") /\ responses = <<>>
      /\ exitCode = 0 <=> (Printed("serving") /\ Printed("shutdown"))
      /\ exitCode = 1 <=>
           /\ Len(results) > 0
           /\ results[Len(results)] \notin {"OK", "EADDRINUSE"}
      /\ exitCode = 1 => ~Printed("serving") /\ responses = <<>>

\* C5 witness: all 22 attempts failed and the process exited with code 2.
C5_Witness ==
    /\ pc = "exited"
    /\ Exhausted
    /\ exitCode = 2

\* C6: the policy headers of a response are exactly, in order:
\* X-Content-Type-Options; the three Cross-Origin-* headers only when
\* isolation is enabled; Content-Security-Policy with the fixed value. Five
\* entries when enabled, two when disabled.
C6_PolicyHeaders ==
    \A w \in Flushed :
      /\ PolicyPart(w) = ExpectedPolicy(isolated, coep)
      /\ Len(PolicyPart(w)) = IF isolated THEN 5 ELSE 2
      /\ ~isolated =>
           \A i \in 1..Len(w) :
             w[i].name \notin {"Cross-Origin-Opener-Policy",
                               "Cross-Origin-Embedder-Policy",
                               "Cross-Origin-Resource-Policy"}
      /\ \E i \in 1..Len(w) :
           w[i].name = "Content-Security-Policy" /\ w[i].value = ExpectedCSP

\* C6 witness: a response served with isolation enabled and require-corp.
C6_Witness ==
    /\ isolated
    /\ coep = "require-corp"
    /\ Len(responses) >= 1

\* C7: every response of a run carries the same policy headers, computed
\* from the run's configuration; each policy header name appears once per
\* response; they precede the single end-of-headers line, which precedes
\* the body; no header stays buffered from one request to the next.
C7_SamePolicyEveryResponse ==
    /\ \A w1, w2 \in Flushed : PolicyPart(w1) = PolicyPart(w2)
    /\ \A w \in Flushed :
         /\ Len(PolicyPart(w)) >= 2
         /\ \A i, j \in 1..Len(PolicyPart(w)) :
              i # j => PolicyPart(w)[i].name # PolicyPart(w)[j].name
         /\ \E e \in 1..Len(w) :
              /\ w[e].t = "end"
              /\ \A i \in 1..Len(w) :
                   /\ w[i].t \in {"status", "header"} => i < e
                   /\ w[i].t = "body" => i > e
                   /\ w[i].t = "end" => i = e
    /\ handler # <<>> =>
         /\ handler[1].isolated = isolated
         /\ handler[1].coep_policy = coep
         /\ handler[1].stage \in {"flushed", "body"} => hdrbuf = <<>>
    /\ handler = <<>> => hdrbuf = <<>> /\ wire = <<>>

\* C7 witness: a success response and an error response served in one run.
C7_Witness ==
    /\ Len(responses) = 2
    /\ responses[1][1].name = "200"
    /\ responses[2][1].name = "404"

\* C8: once the listening socket is acquired, the program closes it before
\* the process exits, in particular on interrupt during the accept loop.
C8_SocketClosedOnExit ==
    (pc = "exited" /\ httpd # None) => httpd \notin open

\* C9: at most one socket of the search is open at any moment; a failed
\* attempt's socket is closed before the next attempt or the error; after a
\* successful search exactly the bound socket is open, after a failed one
\* none.
C9_AtMostOneSocket ==
    /\ Cardinality(open) <= 1
    /\ binding # 0 => open = {binding}
    /\ (binding = 0 /\ httpd = None) => open = {}
    /\ httpd # None => open = {httpd}

\* C9 witness: two attempts failed and the third is bound.
C9_Witness ==
    /\ Len(results) = 3
    /\ results[1] = "EADDRINUSE"
    /\ results[2] = "EADDRINUSE"
    /\ httpd = 3
    /\ open = {3}

\* C10: every port passed to a bind attempt is in [0, 65535], and the search
\* makes at most 22 attempts.
C10_ValidPorts ==
    /\ Len(attempts) <= 22
    /\ \A i \in 1..Len(attempts) : attempts[i] \in 0..65535

Spec == Init /\ [][Next]_vars
=============================================================================
